---- MODULE Spec2Model ----
(***************************************************************************)
(* tdnet-scraper: the Harvester (tdnet_scraper.py), the Batch Driver       *)
(* (batch_run.py), the Triage Engine (scandal_detector.py) and the         *)
(* Enricher (scandal_summarizer.py) as one state machine over the files    *)
(* they share: the Daily Listing Files                                     *)
(* (output/tdnet_<date>.csv), the Cumulative Store                         *)
(* (alerts/scandal_alerts.json) and the downloaded documents               *)
(* (alerts/pdf/<date>_<code>_<seq>.pdf).                                    *)
(*                                                                         *)
(* Every program is single-threaded.  While serial holds the invocations    *)
(* are serialised: a new one starts only when no other one is running.     *)
(***************************************************************************)
EXTENDS Integers, Sequences, FiniteSets, TLC

(***************************************************************************)
(* Bounds of the model.                                                    *)
(***************************************************************************)
\* Calendar days are 1..MaxDate; the clock (date.today()) runs over them too.
MaxDate == 2

Dates == 1..MaxDate

\* The classifier names at most MaxMatches items in one answer.
MaxMatches == 2

\* The Enricher's --limit is at most MaxLimit.
MaxLimit == 1

(***************************************************************************)
(* Program constants.                                                      *)
(***************************************************************************)
MAX_RETRIES == 3
ITEMS_PER_PAGE == 100
REQUEST_INTERVAL == 1

\* The total item counts a listing's pager may show (0: no pager on the page).
Counts == {0, 100, 101, 150, 200}

VARIABLES
    today,      \* date.today(), the wall clock's day
    csv,        \* output/tdnet_<d>.csv per date: [present, rows]
    csvRun,     \* history per date: the pages fetched by the run that wrote the file
    hpc,        \* Harvester process: "idle", "fetch" (inside fetch_page), "done"
    hcaller,    \* who started the Harvester: "cli" or "batch"
    hdate,      \* date_str
    hpage,      \* the page being fetched
    hattempt,   \* fetch_page's attempt
    htotal,     \* total_pages
    hrecords,   \* all_records
    hexit,      \* the process's exit status once hpc = "done"
    hhist,      \* history of the run: requests made, pages fetched, the file before,
                \* page 1's count, the requests and sleeps in order
    bpc,        \* Batch Driver process: "idle", "loop", "wait", "report"
    bstart,     \* START_DATE of the run
    bend,       \* END_DATE of the run
    current,    \* batch_run.main's current
    total,      \* batch_run.main's total
    done,       \* dates whose Harvester exited 0
    skipped,    \* dates skipped because the file exists
    failed,     \* dates whose Harvester exited non-zero
    blog,       \* history: the visits of the run, in order
    bprev,      \* history: the previous run's range and the dates it completed
    store,      \* alerts/scandal_alerts.json: the sequence of records
    pdf,        \* alerts/pdf: file name -> the URL its content was downloaded from
    triaged,    \* history per date: -1, or the match count of its completed triage
    ever,       \* history: the records, and the summarised records, ever saved
    tpc,        \* Triage process: "idle", "enter", "next", "classify", "download",
                \* "get", "done"
    tmode,      \* "date" (--date) or "all" (--all)
    alerts,     \* scandal_detector.main's alerts
    processed,  \* processed_dates
    tqueue,     \* the csv_files the --all loop has not visited yet
    tdate,      \* date_str
    detected,   \* process_date's detected
    ti,         \* the position of process_date's loop in detected
    counter,    \* code_counter
    tattempt,   \* download_pdf's attempt
    texit,      \* the process's exit status once tpc = "done"
    thist,      \* history of the run: the store before, what it met
    dl,         \* history of the last download_pdf call
    serial,     \* the callers start an invocation only when no other one runs
    overlapped, \* history: two invocations on the store have run at the same time
    epc,        \* Enricher process: "idle", "loop", "call", "save", "done"
    ealerts,    \* scandal_summarizer.main's alerts
    etargets,   \* the targets the loop has not finished, as indices of alerts
    eexit,      \* the process's exit status once epc = "done"
    ehist       \* history of the run: what it selected, met and saved

hvars == <<hpc, hcaller, hdate, hpage, hattempt, htotal, hrecords, hexit, hhist>>
bvars == <<bpc, bstart, bend, current, total, done, skipped, failed, blog, bprev>>
fvars == <<csv, csvRun>>
svars == <<store, pdf, triaged, ever>>
tvars == <<tpc, tmode, alerts, processed, tqueue, tdate, detected, ti, counter,
           tattempt, texit, thist, dl>>
lvars == <<serial, overlapped>>
evars == <<epc, ealerts, etargets, eexit, ehist>>
vars == <<today, fvars, hvars, bvars, lvars, evars, svars, tvars, lvars, evars>>

(***************************************************************************)
(* The portal.  A listing page either says that nothing was disclosed on   *)
(* the date, or carries a pager with the total count and a table of rows.  *)
(* Nothing is listed for a day that has not come yet.                      *)
(***************************************************************************)
NoFile == [present |-> FALSE, rows |-> <<>>]

\* One row of the listing table of page p, as the portal serves it.
\* (link 0: the title cell has no <a href>; the one-page listing's row has none.)
PortalRow(c, p) ==
    [time |-> p, code |-> "A", title |-> p, link |-> IF c = ITEMS_PER_PAGE THEN 0 ELSE p]

NoDataPage == [nodata |-> TRUE, count |-> 0, table |-> <<>>]

ListingPage(c, p) ==
    [nodata |-> FALSE, count |-> c,
     table |-> IF c = 0 THEN <<>> ELSE <<PortalRow(c, p)>>]

\* What a successful GET of page p of date d may return.
PortalResponses(d, p) ==
    IF d > today THEN {NoDataPage}
    ELSE IF p = 1 THEN {NoDataPage} \cup {ListingPage(c, 1) : c \in Counts}
    ELSE {ListingPage(c, p) : c \in {k \in Counts : k > (p - 1) * ITEMS_PER_PAGE}}

(***************************************************************************)
(* tdnet_scraper.py                                                        *)
(***************************************************************************)
\* format_date with the time appended: the record's timestamp.
Stamp(d, t) == [ymd |-> d, hm |-> t]

is_no_data(resp) == resp.nodata

parse_total_count(resp) == resp.count

\* TotalPages, were the quotient rounded down and one page added.
TotalPagesFloorPlusOne(count) == count \div ITEMS_PER_PAGE + 1

\* math.ceil(total_count / ITEMS_PER_PAGE)
TotalPages(count) == (count + ITEMS_PER_PAGE - 1) \div ITEMS_PER_PAGE

\* BASE_URL + href, or the empty string (<<>>) without a link.
_cell_link(d, row) == IF row.link = 0 THEN <<>> ELSE <<d, row.link>>

parse_rows(resp, d) ==
    [i \in 1..Len(resp.table) |->
        [dt    |-> Stamp(d, resp.table[i].time),
         code  |-> resp.table[i].code,
         title |-> resp.table[i].title,
         url   |-> _cell_link(d, resp.table[i])]]

save_csv(records, d) == [csv EXCEPT ![d] = [present |-> TRUE, rows |-> records]]

\* wait = 2 ** attempt, were the wait the same after every failure.
BackoffFlat(attempt) == 1

\* wait = 2 ** attempt
Backoff(attempt) == 2 ^ attempt

\* What a retry loop does on requests.get, in order: a request of a page (or
\* document) that succeeded ("ok") or raised ("fail"), a sleep of n seconds
\* before the next attempt ("backoff") or before the next page ("throttle").
Event(ev, page, n) == [ev |-> ev, page |-> page, n |-> n]

Idle == hpc = "idle" /\ bpc = "idle" /\ tpc = "idle" /\ epc = "idle"

\* An invocation that works on the store starts when its program is not
\* running and, where the callers serialise, nothing else is.
TriageMayStart == tpc = "idle" /\ (serial => Idle)

EnrichMayStart == epc = "idle" /\ (serial => Idle)

\* The process starts: main up to the first call of fetch_page.
HarvesterBegin(d, caller) ==
    /\ hpc' = "fetch"
    /\ hcaller' = caller
    /\ hdate' = d
    /\ hpage' = 1
    /\ hattempt' = 0
    /\ htotal' = 0
    /\ hrecords' = <<>>
    /\ hexit' = 0
    /\ hhist' = [reqs |-> 0, fetched |-> {}, pre |-> csv[d],
                 nodata |-> FALSE, exhausted |-> FALSE, count |-> 0, log |-> <<>>]

\* python tdnet_scraper.py --date d, from the command line.
HarvestStart(d) ==
    /\ Idle
    /\ HarvesterBegin(d, "cli")
    /\ UNCHANGED <<today, fvars, bvars, svars, tvars, lvars, evars>>

\* The run ends without a fetch left to do: the file is written, exit 0.
HarvestFinish(records, pages) ==
    /\ csv' = save_csv(records, hdate)
    /\ csvRun' = [csvRun EXCEPT ![hdate] =
                    [fetched |-> hhist.fetched \cup {hpage}, pages |-> pages]]
    /\ hpc' = "done"
    /\ hexit' = 0
    /\ hrecords' = records
    /\ htotal' = pages
    /\ UNCHANGED <<hpage, hattempt>>

\* requests.get succeeds inside fetch_page; main goes on to the next fetch_page
\* or to its end.
FetchOk(resp) ==
    /\ hpc = "fetch"
    /\ resp \in PortalResponses(hdate, hpage)
    /\ LET more == IF hpage = 1
                    THEN ~is_no_data(resp) /\ TotalPages(parse_total_count(resp)) >= 2
                    ELSE hpage < htotal
       IN hhist' = [hhist EXCEPT
                      !.reqs = @ + 1,
                      !.fetched = @ \cup {hpage},
                      !.nodata = (hpage = 1 /\ is_no_data(resp)),
                      !.count = IF hpage = 1 THEN parse_total_count(resp) ELSE @,
                      !.log = @ \o <<Event("ok", hpage, 0)>>
                                \o IF more
                                   THEN <<Event("throttle", hpage + 1, REQUEST_INTERVAL)>>
                                   ELSE <<>>]
    /\ IF hpage = 1
       THEN IF is_no_data(resp)
            THEN /\ hpc' = "done"
                 /\ hexit' = 0
                 /\ UNCHANGED <<fvars, hpage, hattempt, htotal, hrecords>>
            ELSE LET pages == TotalPages(parse_total_count(resp))
                     recs == parse_rows(resp, hdate)
                 IN IF pages >= 2
                    THEN /\ htotal' = pages
                         /\ hrecords' = recs
                         /\ hpage' = 2
                         /\ hattempt' = 0
                         /\ UNCHANGED <<fvars, hpc, hexit>>
                    ELSE HarvestFinish(recs, pages)
       ELSE LET recs == hrecords \o parse_rows(resp, hdate)
            IN IF hpage < htotal
               THEN /\ hrecords' = recs
                    /\ hpage' = hpage + 1
                    /\ hattempt' = 0
                    /\ UNCHANGED <<fvars, hpc, hexit, htotal>>
               ELSE HarvestFinish(recs, htotal)
    /\ UNCHANGED <<today, hcaller, hdate, bvars, svars, tvars, lvars, evars>>

\* FetchFail, were the rows fetched so far written before sys.exit(1).
FetchFailSavesPartial ==
    /\ hpc = "fetch"
    /\ hhist' = [hhist EXCEPT !.reqs = @ + 1,
                              !.exhausted = ~(hattempt < MAX_RETRIES - 1)]
    /\ IF hattempt < MAX_RETRIES - 1
       THEN /\ hattempt' = hattempt + 1
            /\ UNCHANGED <<hpc, hexit, fvars>>
       ELSE /\ hpc' = "done"
            /\ hexit' = 1
            /\ csv' = save_csv(hrecords, hdate)
            /\ csvRun' = [csvRun EXCEPT ![hdate] =
                            [fetched |-> hhist.fetched, pages |-> htotal]]
            /\ UNCHANGED hattempt
    /\ UNCHANGED <<today, hcaller, hdate, hpage, htotal, hrecords, bvars, svars, tvars, lvars, evars>>

\* requests.get raises inside fetch_page: back off and retry, or sys.exit(1).
FetchFail ==
    /\ hpc = "fetch"
    /\ hhist' = [hhist EXCEPT
                   !.reqs = @ + 1,
                   !.exhausted = ~(hattempt < MAX_RETRIES - 1),
                   !.log = @ \o <<Event("fail", hpage, 0)>>
                             \o IF hattempt < MAX_RETRIES - 1
                                THEN <<Event("backoff", hpage, Backoff(hattempt))>>
                                ELSE <<>>]
    /\ IF hattempt < MAX_RETRIES - 1
       THEN /\ hattempt' = hattempt + 1
            /\ UNCHANGED <<hpc, hexit>>
       ELSE /\ hpc' = "done"
            /\ hexit' = 1
            /\ UNCHANGED hattempt
    /\ UNCHANGED <<today, fvars, hcaller, hdate, hpage, htotal, hrecords, bvars, svars, tvars, lvars, evars>>

\* No Harvester process: its memory is gone.
NoHistory == [reqs |-> 0, fetched |-> {}, pre |-> NoFile,
              nodata |-> FALSE, exhausted |-> FALSE, count |-> 0, log |-> <<>>]

HarvesterGone ==
    /\ hpc' = "idle"
    /\ hcaller' = "cli"
    /\ hdate' = 1
    /\ hpage' = 1
    /\ hattempt' = 0
    /\ htotal' = 0
    /\ hrecords' = <<>>
    /\ hexit' = 0
    /\ hhist' = NoHistory

\* The command-line run's process is gone.
HarvestExit ==
    /\ hpc = "done"
    /\ hcaller = "cli"
    /\ HarvesterGone
    /\ UNCHANGED <<today, fvars, bvars, svars, tvars, lvars, evars>>

\* The rows of a run that fetches every page of a listing whose pager shows c:
\* page 1's, then page 2's, and so on.
RECURSIVE RowsUpTo(_, _, _)
RowsUpTo(d, c, p) ==
    IF p = 0 THEN <<>>
    ELSE RowsUpTo(d, c, p - 1) \o parse_rows(ListingPage(c, p), d)

\* What a whole run of main writes for date d when no fetch fails and page 1
\* lists something: one of these.
HarvestOutcomes(d) ==
    {RowsUpTo(d, c, IF TotalPages(c) = 0 THEN 1 ELSE TotalPages(c)) : c \in Counts}

\* A whole run of python tdnet_scraper.py --date d that writes the file, as
\* the other programs see it.
HarvestRun(d, rows) ==
    /\ Idle
    /\ d <= today
    /\ rows \in HarvestOutcomes(d)
    /\ csv' = save_csv(rows, d)
    /\ csvRun' = [csvRun EXCEPT ![d] =
                    [fetched |-> 1..Len(rows), pages |-> Len(rows)]]
    /\ UNCHANGED <<today, hvars, bvars, svars, tvars, lvars, evars>>

(***************************************************************************)
(* batch_run.py                                                            *)
(***************************************************************************)
\* CsvExists, were the file never looked for.
CsvExistsNever(d) == FALSE

\* csv_path.exists()
CsvExists(d) == csv[d].present

\* python batch_run.py with START_DATE = s and END_DATE = e.
BatchStart(s, e) ==
    /\ Idle
    /\ s <= e
    /\ bpc' = "loop"
    /\ bstart' = s
    /\ bend' = e
    /\ current' = s
    /\ total' = e - s + 1
    /\ done' = 0
    /\ skipped' = 0
    /\ failed' = 0
    /\ blog' = <<>>
    /\ UNCHANGED <<today, fvars, hvars, bprev, svars, tvars, lvars, evars>>

\* The loop's first branch: the file exists.
BatchSkip ==
    /\ bpc = "loop"
    /\ current <= bend
    /\ CsvExists(current)
    /\ skipped' = skipped + 1
    /\ current' = current + 1
    /\ blog' = Append(blog, [date |-> current, existed |-> csv[current].present,
                             invoked |-> FALSE, reqs |-> 0, rc |-> 0])
    /\ UNCHANGED <<today, fvars, hvars, bpc, bstart, bend, total, done, failed,
                   bprev, svars, tvars, lvars, evars>>

\* subprocess.run starts the Harvester on the date.
BatchInvoke ==
    /\ bpc = "loop"
    /\ current <= bend
    /\ ~CsvExists(current)
    /\ hpc = "idle"
    /\ HarvesterBegin(current, "batch")
    /\ bpc' = "wait"
    /\ UNCHANGED <<today, fvars, bstart, bend, current, total, done, skipped,
                   failed, blog, bprev, svars, tvars, lvars, evars>>

\* BatchCollect, were a non-zero exit to end the loop.
BatchCollectStops ==
    /\ bpc = "wait"
    /\ hpc = "done"
    /\ HarvesterGone
    /\ IF hexit = 0
       THEN done' = done + 1 /\ current' = current + 1 /\ UNCHANGED failed
       ELSE failed' = failed + 1 /\ current' = bend + 1 /\ UNCHANGED done
    /\ blog' = Append(blog, [date |-> current, existed |-> hhist.pre.present,
                             invoked |-> TRUE, reqs |-> hhist.reqs, rc |-> hexit])
    /\ bpc' = "loop"
    /\ UNCHANGED <<today, fvars, bstart, bend, total, skipped, bprev, svars, tvars, lvars, evars>>

\* subprocess.run returns: count the date and move on.
BatchCollect ==
    /\ bpc = "wait"
    /\ hpc = "done"
    /\ HarvesterGone
    /\ IF hexit = 0
       THEN done' = done + 1 /\ UNCHANGED failed
       ELSE failed' = failed + 1 /\ UNCHANGED done
    /\ current' = current + 1
    /\ blog' = Append(blog, [date |-> current, existed |-> hhist.pre.present,
                             invoked |-> TRUE, reqs |-> hhist.reqs, rc |-> hexit])
    /\ bpc' = "loop"
    /\ UNCHANGED <<today, fvars, bstart, bend, total, skipped, bprev, svars, tvars, lvars, evars>>

\* The dates of a run's log whose Harvester exited 0.
Completed(log) == {log[i].date : i \in {j \in 1..Len(log) : log[j].invoked /\ log[j].rc = 0}}

\* The loop is over: the report is printed.
BatchReport ==
    /\ bpc = "loop"
    /\ current > bend
    /\ bpc' = "report"
    /\ UNCHANGED <<today, fvars, hvars, bstart, bend, current, total, done,
                   skipped, failed, blog, bprev, svars, tvars, lvars, evars>>

\* The driver's process is gone, after its report or killed between two dates.
BatchExit ==
    /\ bpc \in {"loop", "report"}
    /\ bpc' = "idle"
    /\ bstart' = 1
    /\ bend' = 1
    /\ current' = 1
    /\ total' = 0
    /\ done' = 0
    /\ skipped' = 0
    /\ failed' = 0
    /\ blog' = <<>>
    /\ bprev' = [ran |-> TRUE, start |-> bstart, end |-> bend,
                 ok |-> Completed(blog)]
    /\ UNCHANGED <<today, fvars, hvars, svars, tvars, lvars, evars>>

(***************************************************************************)
(* scandal_detector.py                                                     *)
(***************************************************************************)
\* The issuer codes of the listings.
Codes == {"A"}

\* The fixed rationale of a tombstone, "_処理済み（該当なし）".
Sentinel == "_processed"

\* The arrays the classifier may write for n titles: at most MaxMatches items,
\* whose numbers may lie outside 1..n.
ItemSeqs(n) ==
    UNION {[1..k -> [num : 0..(n + 1), reason : {"r"}]] : k \in 0..MaxMatches}

\* The answer's text, as the two regular expressions of _extract_json_array
\* see it.  fence: the text has no ```-fenced block holding [...] ("none"), or
\* it has one and json.loads refuses ("bad") or loads ("ok") what is in it,
\* giving fitems.  span: the same for the text from its first [ to its last ],
\* giving sitems.  A text with a fenced [...] has brackets; when both load, the
\* span's array is the block's own or another one (here the empty one).
ClassifierResponses(n) ==
    {[fence |-> "none", fitems |-> <<>>, span |-> s, sitems |-> <<>>] :
        s \in {"none", "bad"}}
    \cup {[fence |-> "none", fitems |-> <<>>, span |-> "ok", sitems |-> it] :
            it \in ItemSeqs(n)}
    \cup {[fence |-> "bad", fitems |-> <<>>, span |-> "bad", sitems |-> <<>>]}
    \cup {[fence |-> "bad", fitems |-> <<>>, span |-> "ok", sitems |-> it] :
            it \in ItemSeqs(n)}
    \cup {[fence |-> "ok", fitems |-> it, span |-> "bad", sitems |-> <<>>] :
            it \in ItemSeqs(n)}
    \cup UNION {{[fence |-> "ok", fitems |-> it, span |-> "ok", sitems |-> jt] :
                    jt \in {it, <<>>}} : it \in ItemSeqs(n)}

\* load_alerts, were the file not read.
load_alerts_Nothing == <<>>

\* json.load of the whole file (both programs)
load_alerts == store

\* json.dump of the whole list (both programs)
save_alerts(as) == as

\* A record without its summary: what the Triage Engine made of it.
Key(r) == [r EXCEPT !.summary = ""]

\* The history of the saved records once the store holds as.
EverWith(as) ==
    [recs |-> ever.recs \cup {Key(as[i]) : i \in 1..Len(as)},
     sums |-> ever.sums \cup {as[i] : i \in {j \in 1..Len(as) : as[j].summary # ""}}]

\* get_processed_dates, were a timestamp without a time not matched.
get_processed_dates_NoTombstones(as) ==
    {as[i].dt.ymd : i \in {j \in 1..Len(as) : as[j].dt.hm # 0}}

\* The regular expression matches the date at the head of a tombstone's
\* YYYY/MM/DD as of a record's YYYY/MM/DD HH:MM.
get_processed_dates(as) == {as[i].dt.ymd : i \in 1..Len(as)}

read_csv(d) == csv[d].rows

\* _extract_json_array, were the text outside a fenced block never searched.
_extract_json_array_FenceOnly(resp) ==
    IF resp.fence = "ok" THEN resp.fitems ELSE <<>>

\* The fenced block first; when there is none or json.loads raised, the span
\* from the first [ to the last ]; when there is none or json.loads raised, [].
_extract_json_array(resp) ==
    IF resp.fence # "none" /\ resp.fence = "ok" THEN resp.fitems
    ELSE IF resp.span # "none" /\ resp.span = "ok" THEN resp.sitems
    ELSE <<>>

\* InRange, were the last title's number refused.
InRangeStrict(m, n) == 1 <= m.num /\ m.num < n

\* 1 <= idx <= len(records)
InRange(m, n) == 1 <= m.num /\ m.num <= n

\* detect_scandals after the classifier's answer: the matches in range, as records.
detect_scandals(records, resp) ==
    LET matches == _extract_json_array(resp)
        valid == SelectSeq(matches, LAMBDA m : InRange(m, Len(records)))
    IN [i \in 1..Len(valid) |->
           [dt       |-> records[valid[i].num].dt,
            code     |-> records[valid[i].num].code,
            title    |-> records[valid[i].num].title,
            url      |-> records[valid[i].num].url,
            pdf_path |-> <<>>,
            reason   |-> valid[i].reason,
            summary  |-> "",
            found    |-> today]]

\* The dummy entry main appends for a date without matches.
Tombstone(d) ==
    [dt       |-> [ymd |-> d, hm |-> 0],
     code     |-> "",
     title    |-> 0,
     url      |-> <<>>,
     pdf_path |-> <<>>,
     reason   |-> Sentinel,
     summary  |-> "",
     found    |-> today]

_make_pdf_filename(d, code, seq) == <<d, code, seq>>

\* PathExists, were the path never looked for.
PathExistsNever(name) == FALSE

\* save_path.exists()
PathExists(name) == name \in DOMAIN pdf

NoCount == [c \in Codes |-> 0]

NoDownload == [called |-> FALSE, name |-> <<>>, existed |-> FALSE, reqs |-> 0,
               before |-> <<>>, after |-> <<>>, result |-> FALSE, log |-> <<>>]

NoTriageHistory == [pre |-> <<>>, was |-> FALSE, nofile |-> FALSE, m |-> 0,
                    dlfail |-> {}, parse |-> "-"]

\* No Triage process: its memory is gone.
TriageGone ==
    /\ tpc' = "idle"
    /\ tmode' = "date"
    /\ alerts' = <<>>
    /\ processed' = {}
    /\ tqueue' = <<>>
    /\ tdate' = 1
    /\ detected' = <<>>
    /\ ti' = 0
    /\ counter' = NoCount
    /\ tattempt' = 0
    /\ texit' = 0
    /\ thist' = NoTriageHistory
    /\ dl' = NoDownload

\* main's end of a date: the new records, or the tombstone, are appended and
\* the store is saved; --date returns, --all goes on with the next file.
Commit(d, new, as, m, mode) ==
    LET out == IF new # <<>> THEN as \o new ELSE Append(as, Tombstone(d))
    IN /\ alerts' = out
       /\ store' = save_alerts(out)
       /\ ever' = EverWith(save_alerts(out))
       /\ triaged' = [triaged EXCEPT ![d] = m]
       /\ tpc' = IF mode = "date" THEN "done" ELSE "next"
       /\ tdate' = d
       /\ detected' = new
       /\ texit' = 0

\* process_date up to the classifier call: without a listing file, or with an
\* empty one, it returns [] at once.
EnterDate(d, as, mode, hist) ==
    IF ~csv[d].present \/ read_csv(d) = <<>>
    THEN /\ Commit(d, <<>>, as, 0, mode)
         /\ thist' = [hist EXCEPT !.nofile = ~csv[d].present, !.m = 0,
                                  !.dlfail = {}, !.parse = "-"]
         /\ UNCHANGED pdf
    ELSE /\ tpc' = "classify"
         /\ tdate' = d
         /\ alerts' = as
         /\ detected' = <<>>
         /\ thist' = [hist EXCEPT !.nofile = FALSE, !.m = 0, !.dlfail = {},
                                  !.parse = "-"]
         /\ texit' = 0
         /\ UNCHANGED svars

\* python scandal_detector.py --date d, up to process_date: the store is
\* loaded; main returns when the date is among the processed ones.
TriageDate(d) ==
    /\ TriageMayStart
    /\ overlapped' = (overlapped \/ epc # "idle")
    /\ tmode' = "date"
    /\ processed' = get_processed_dates(load_alerts)
    /\ tqueue' = <<>>
    /\ ti' = 0
    /\ counter' = NoCount
    /\ tattempt' = 0
    /\ dl' = NoDownload
    /\ LET hist == [NoTriageHistory EXCEPT !.pre = store, !.was = triaged[d] # -1]
       IN IF d \in get_processed_dates(load_alerts)
          THEN /\ tpc' = "done"
               /\ tdate' = d
               /\ alerts' = load_alerts
               /\ detected' = <<>>
               /\ texit' = 0
               /\ thist' = hist
          ELSE /\ tpc' = "enter"
               /\ tdate' = d
               /\ alerts' = load_alerts
               /\ detected' = <<>>
               /\ texit' = 0
               /\ thist' = hist
    /\ UNCHANGED <<today, fvars, hvars, bvars, svars, serial, evars>>

\* --date: process_date(date_str, client) is called.
TriageEnter ==
    /\ tpc = "enter"
    /\ EnterDate(tdate, alerts, tmode, thist)
    /\ UNCHANGED <<today, fvars, hvars, bvars, lvars, evars, tmode, processed, tqueue,
                   ti, counter, tattempt, dl>>

\* sorted(OUTPUT_DIR.glob("tdnet_*.csv")), as the dates of the files
RECURSIVE SortedDates(_)
SortedDates(S) ==
    IF S = {} THEN <<>>
    ELSE LET least == CHOOSE x \in S : \A y \in S : x <= y
         IN <<least>> \o SortedDates(S \ {least})

csv_files == SortedDates({d \in Dates : csv[d].present})

\* python scandal_detector.py --all, up to its loop
TriageAll ==
    /\ TriageMayStart
    /\ overlapped' = (overlapped \/ epc # "idle")
    /\ tmode' = "all"
    /\ alerts' = load_alerts
    /\ processed' = get_processed_dates(load_alerts)
    /\ tqueue' = csv_files
    /\ tpc' = IF csv_files = <<>> THEN "done" ELSE "next"
    /\ tdate' = 1
    /\ detected' = <<>>
    /\ ti' = 0
    /\ counter' = NoCount
    /\ tattempt' = 0
    /\ texit' = 0
    /\ thist' = [NoTriageHistory EXCEPT !.pre = store]
    /\ dl' = NoDownload
    /\ UNCHANGED <<today, fvars, hvars, bvars, serial, evars, svars>>

\* The head of --all's loop: the next file, skipped when its date is processed.
AllNext ==
    /\ tpc = "next"
    /\ IF tqueue = <<>>
       THEN /\ tpc' = "done"
            /\ UNCHANGED <<svars, alerts, tqueue, tdate, detected, texit, thist>>
       ELSE LET d == Head(tqueue)
            IN /\ tqueue' = Tail(tqueue)
               /\ IF d \in processed
                  THEN UNCHANGED <<svars, tpc, alerts, tdate, detected, texit, thist>>
                  ELSE EnterDate(d, alerts, "all",
                                 [thist EXCEPT !.was = triaged[d] # -1])
    /\ ti' = 0
    /\ counter' = NoCount
    /\ tattempt' = 0
    /\ UNCHANGED <<today, fvars, hvars, bvars, lvars, evars, tmode, processed, dl>>

\* Where the answer's JSON array is: in its fenced block, else in the
\* bracketed span of its text, else nowhere.
ArrayOf(resp) ==
    IF resp.fence = "ok" THEN "fence" ELSE IF resp.span = "ok" THEN "span" ELSE "none"

\* The number of the items of the answer's array that name a title of the date.
ValidCount(resp, n) ==
    LET items == CASE ArrayOf(resp) = "fence" -> resp.fitems
                   [] ArrayOf(resp) = "span" -> resp.sitems
                   [] OTHER -> <<>>
    IN Cardinality({i \in 1..Len(items) : items[i].num \in 1..n})

\* client.messages.create returns: detect_scandals builds the records.
Classify(resp) ==
    /\ tpc = "classify"
    /\ LET det == detect_scandals(read_csv(tdate), resp)
           m == ValidCount(resp, Len(read_csv(tdate)))
       IN /\ thist' = [thist EXCEPT !.m = m,
                                    !.parse = IF ArrayOf(resp) = "none" THEN "none"
                                              ELSE "array"]
          /\ IF det = <<>>
             THEN /\ Commit(tdate, <<>>, alerts, m, tmode)
                  /\ UNCHANGED <<pdf, ti>>
             ELSE /\ tpc' = "download"
                  /\ detected' = det
                  /\ ti' = 1
                  /\ UNCHANGED <<svars, alerts, tdate, texit>>
    /\ counter' = NoCount
    /\ UNCHANGED <<today, fvars, hvars, bvars, lvars, evars, tmode, processed, tqueue, tattempt, dl>>

\* client.messages.create raises (or the answer's array holds what match.get
\* cannot read): nothing catches it and the process dies.
ClassifyFail ==
    /\ tpc = "classify"
    /\ tpc' = "done"
    /\ texit' = 1
    /\ UNCHANGED <<today, fvars, hvars, bvars, lvars, evars, svars, tmode, alerts, processed,
                   tqueue, tdate, detected, ti, counter, tattempt, thist, dl>>

\* process_date's loop goes on after the alert at ti, whose record is now rec:
\* to the next alert, or back to main with all of them.
AfterAlert(rec) ==
    LET det == [detected EXCEPT ![ti] = rec]
    IN IF ti < Len(detected)
       THEN /\ detected' = det
            /\ ti' = ti + 1
            /\ tpc' = "download"
            /\ UNCHANGED <<store, triaged, ever, alerts, tdate, texit>>
       ELSE /\ Commit(tdate, det, alerts, thist.m, tmode)
            /\ UNCHANGED ti

\* The loop's body up to download_pdf's first request: the file name from the
\* counter; no URL, nothing to do; the file exists, download_pdf returns True.
DownloadBegin ==
    /\ tpc = "download"
    /\ LET alert == detected[ti]
           seq == counter[alert.code] + 1
           name == _make_pdf_filename(tdate, alert.code, seq)
       IN /\ counter' = [counter EXCEPT ![alert.code] = seq]
          /\ IF alert.url = <<>>
             THEN /\ AfterAlert(alert)
                  /\ UNCHANGED <<pdf, dl>>
             ELSE IF PathExists(name)
                  THEN /\ AfterAlert([alert EXCEPT !.pdf_path = name])
                       /\ dl' = [called |-> TRUE, name |-> name, existed |-> TRUE,
                                 reqs |-> 0, before |-> pdf[name],
                                 after |-> pdf[name], result |-> TRUE, log |-> <<>>]
                       /\ UNCHANGED pdf
                  ELSE /\ tpc' = "get"
                       /\ dl' = [called |-> TRUE, name |-> name,
                                 existed |-> name \in DOMAIN pdf, reqs |-> 0,
                                 before |-> IF name \in DOMAIN pdf THEN pdf[name] ELSE <<>>,
                                 after |-> <<>>, result |-> FALSE, log |-> <<>>]
                       /\ UNCHANGED <<svars, alerts, tdate, detected, ti, texit>>
    /\ tattempt' = 0
    /\ UNCHANGED <<today, fvars, hvars, bvars, lvars, evars, tmode, processed, tqueue, thist>>

\* requests.get succeeds inside download_pdf: the file is written.
GetOk ==
    /\ tpc = "get"
    /\ LET alert == detected[ti]
           name == dl.name
       IN /\ pdf' = [n \in DOMAIN pdf \cup {name} |->
                        IF n = name THEN alert.url ELSE pdf[n]]
          /\ dl' = [dl EXCEPT !.reqs = @ + 1, !.after = alert.url, !.result = TRUE,
                               !.log = Append(@, Event("ok", ti, 0))]
          /\ AfterAlert([alert EXCEPT !.pdf_path = name])
    /\ UNCHANGED <<today, fvars, hvars, bvars, lvars, evars, tmode, processed, tqueue, counter,
                   tattempt, thist>>

\* GetFail, were download_pdf's last failure to end the process as fetch_page's does.
GetFailFatal ==
    /\ tpc = "get"
    /\ IF tattempt < MAX_RETRIES - 1
       THEN /\ tattempt' = tattempt + 1
            /\ dl' = [dl EXCEPT !.reqs = @ + 1,
                                !.log = @ \o <<Event("fail", ti, 0),
                                               Event("backoff", ti, Backoff(tattempt))>>]
            /\ UNCHANGED <<svars, tpc, alerts, tdate, detected, ti, texit, thist>>
       ELSE /\ dl' = [dl EXCEPT !.reqs = @ + 1, !.after = dl.before, !.result = FALSE,
                                !.log = Append(@, Event("fail", ti, 0))]
            /\ thist' = [thist EXCEPT !.dlfail = @ \cup {ti}]
            /\ tpc' = "done"
            /\ texit' = 1
            /\ UNCHANGED <<svars, alerts, tdate, detected, ti, tattempt>>
    /\ UNCHANGED <<today, fvars, hvars, bvars, lvars, evars, tmode, processed, tqueue, counter>>

\* requests.get raises inside download_pdf: back off and retry, or return False.
GetFail ==
    /\ tpc = "get"
    /\ IF tattempt < MAX_RETRIES - 1
       THEN /\ tattempt' = tattempt + 1
            /\ dl' = [dl EXCEPT !.reqs = @ + 1,
                                !.log = @ \o <<Event("fail", ti, 0),
                                               Event("backoff", ti, Backoff(tattempt))>>]
            /\ UNCHANGED <<svars, tpc, alerts, tdate, detected, ti, texit, thist>>
       ELSE /\ dl' = [dl EXCEPT !.reqs = @ + 1, !.after = dl.before, !.result = FALSE,
                                !.log = Append(@, Event("fail", ti, 0))]
            /\ thist' = [thist EXCEPT !.dlfail = @ \cup {ti}]
            /\ AfterAlert(detected[ti])
            /\ UNCHANGED <<pdf, tattempt>>
    /\ UNCHANGED <<today, fvars, hvars, bvars, lvars, evars, tmode, processed, tqueue, counter>>

\* The process is killed while it works on a date.
TriageKill ==
    /\ tpc \in {"enter", "classify", "download", "get"}
    /\ TriageGone
    /\ UNCHANGED <<today, fvars, hvars, bvars, lvars, evars, svars>>

\* The process is gone.
TriageExit ==
    /\ tpc = "done"
    /\ TriageGone
    /\ UNCHANGED <<today, fvars, hvars, bvars, lvars, evars, svars>>

(***************************************************************************)
(* scandal_summarizer.py                                                   *)
(***************************************************************************)
\* The summary of a document without text, "（テキスト抽出不可）".
Unreadable == "unreadable"

\* What summarize_text may return: the summarizer's text, never empty.
Summaries == {"s"}

\* --limit (0: every unsummarised record)
Limits == 0..MaxLimit

\* ALERTS_JSON.exists(): the file is there once a triage has saved it.
StoreFileExists == \E d \in Dates : triaged[d] # -1

\* The documents extract_text_from_pdf may be given: pymupdf reads text from
\* one, reads nothing (or blanks) from another, and raises on a third.
Extractions == {"text", "blank", "raise"}

\* unsummarized, were a record with a summary taken again.
unsummarized_All(as) ==
    SelectSeq([i \in 1..Len(as) |-> i],
              LAMBDA i : as[i].pdf_path # <<>> /\ as[i].code # "")

\* The indices of the records without a summary that have a document path and
\* an issuer code (no tombstone), in store order.
unsummarized(as) ==
    SelectSeq([i \in 1..Len(as) |-> i],
              LAMBDA i : as[i].summary = "" /\ as[i].pdf_path # <<>> /\ as[i].code # "")

\* unsummarized[:limit]
Take(s, n) == SubSeq(s, 1, IF n < Len(s) THEN n ELSE Len(s))

NoEnrichHistory ==
    [sel |-> <<>>, missing |-> {}, blank |-> {}, failed |-> {}, raised |-> {},
     saves |-> <<>>]

\* No Enricher process: its memory is gone.
EnricherGone ==
    /\ epc' = "idle"
    /\ ealerts' = <<>>
    /\ etargets' = <<>>
    /\ eexit' = 0
    /\ ehist' = NoEnrichHistory

\* python scandal_summarizer.py --limit limit, up to its loop: without a store
\* load_alerts exits with status 1; without a target main returns.
EnrichStart(limit) ==
    /\ EnrichMayStart
    /\ overlapped' = (overlapped \/ tpc # "idle")
    /\ IF ~StoreFileExists
       THEN /\ epc' = "done"
            /\ eexit' = 1
            /\ ealerts' = <<>>
            /\ etargets' = <<>>
            /\ ehist' = NoEnrichHistory
       ELSE LET un == unsummarized(load_alerts)
                targets == Take(un, IF limit > 0 THEN limit ELSE Len(un))
            IN /\ epc' = IF un = <<>> THEN "done" ELSE "loop"
               /\ eexit' = 0
               /\ ealerts' = load_alerts
               /\ etargets' = targets
               /\ ehist' = [NoEnrichHistory EXCEPT !.sel = targets]
    /\ UNCHANGED <<today, fvars, hvars, bvars, svars, tvars, serial>>

\* The loop goes on to its next target, or main returns.
NextTarget ==
    /\ etargets' = Tail(etargets)
    /\ epc' = IF Tail(etargets) = <<>> THEN "done" ELSE "loop"

\* The target's document is not on disk: continue.
EnrichSkipMissing ==
    /\ epc = "loop"
    /\ ~PathExists(ealerts[Head(etargets)].pdf_path)
    /\ ehist' = [ehist EXCEPT !.missing = @ \cup {Head(etargets)}]
    /\ NextTarget
    /\ UNCHANGED <<today, fvars, hvars, bvars, svars, tvars, lvars, ealerts, eexit>>

\* The document is on disk: extract_text_from_pdf.  pymupdf raises and nothing
\* catches it, the process dies; or the text is blank and the record gets the
\* fixed summary, to be saved; or there is text and summarize_text is called.
EnrichExtract(doc) ==
    /\ epc = "loop"
    /\ PathExists(ealerts[Head(etargets)].pdf_path)
    /\ CASE doc = "raise" ->
              /\ ehist' = [ehist EXCEPT !.raised = @ \cup {Head(etargets)}]
              /\ epc' = "done"
              /\ eexit' = 1
              /\ UNCHANGED <<ealerts, etargets>>
         [] doc = "blank" ->
              /\ ealerts' = [ealerts EXCEPT ![Head(etargets)].summary = Unreadable]
              /\ ehist' = [ehist EXCEPT !.blank = @ \cup {Head(etargets)}]
              /\ epc' = "save"
              /\ UNCHANGED <<etargets, eexit>>
         [] OTHER ->
              /\ epc' = "call"
              /\ UNCHANGED <<ealerts, etargets, eexit, ehist>>
    /\ UNCHANGED <<today, fvars, hvars, bvars, svars, tvars, lvars>>

\* EnrichSummaryOk, were the summary also written over the rationale.
EnrichSummaryOkOverReason(summary) ==
    /\ epc = "call"
    /\ ealerts' = [ealerts EXCEPT ![Head(etargets)].summary = summary,
                                  ![Head(etargets)].reason = summary]
    /\ epc' = "save"
    /\ UNCHANGED <<today, fvars, hvars, bvars, svars, tvars, lvars, etargets, eexit,
                   ehist>>

\* client.messages.create returns: the summary is written into the record.
EnrichSummaryOk(summary) ==
    /\ epc = "call"
    /\ ealerts' = [ealerts EXCEPT ![Head(etargets)].summary = summary]
    /\ epc' = "save"
    /\ UNCHANGED <<today, fvars, hvars, bvars, svars, tvars, lvars, etargets, eexit,
                   ehist>>

\* client.messages.create raises anthropic.APIError: continue.
EnrichSummaryFail ==
    /\ epc = "call"
    /\ ehist' = [ehist EXCEPT !.failed = @ \cup {Head(etargets)}]
    /\ NextTarget
    /\ UNCHANGED <<today, fvars, hvars, bvars, svars, tvars, lvars, ealerts, eexit>>

\* EnrichSave, were the store written once, after the last target.
EnrichSaveAtEnd ==
    /\ epc = "save"
    /\ IF Tail(etargets) = <<>>
       THEN /\ store' = save_alerts(ealerts)
            /\ ever' = EverWith(save_alerts(ealerts))
            /\ ehist' = [ehist EXCEPT !.saves = Append(@, Head(etargets))]
       ELSE UNCHANGED <<store, ever, ehist>>
    /\ NextTarget
    /\ UNCHANGED <<today, fvars, hvars, bvars, pdf, triaged, tvars, lvars, ealerts,
                   eexit>>

\* save_alerts(alerts) after the record's summary was written.
EnrichSave ==
    /\ epc = "save"
    /\ store' = save_alerts(ealerts)
    /\ ever' = EverWith(save_alerts(ealerts))
    /\ ehist' = [ehist EXCEPT !.saves = Append(@, Head(etargets))]
    /\ NextTarget
    /\ UNCHANGED <<today, fvars, hvars, bvars, pdf, triaged, tvars, lvars, ealerts,
                   eexit>>

\* The process is killed inside its loop.
EnrichKill ==
    /\ epc \in {"loop", "call", "save"}
    /\ EnricherGone
    /\ UNCHANGED <<today, fvars, hvars, bvars, svars, tvars, lvars>>

\* The process is gone.
EnrichExit ==
    /\ epc = "done"
    /\ EnricherGone
    /\ UNCHANGED <<today, fvars, hvars, bvars, svars, tvars, lvars>>

\* Somebody removes a downloaded document from alerts/pdf.
DocumentLost(name) ==
    /\ name \in DOMAIN pdf
    /\ pdf' = [n \in DOMAIN pdf \ {name} |-> pdf[n]]
    /\ UNCHANGED <<today, fvars, hvars, bvars, store, triaged, ever, tvars, lvars, evars>>

(***************************************************************************)
(* The clock.                                                              *)
(***************************************************************************)
Tick ==
    /\ today < MaxDate
    /\ today' = today + 1
    /\ UNCHANGED <<fvars, hvars, bvars, svars, tvars, lvars, evars>>

\* No program runs, no file is there.
Boot ==
    /\ csv = [d \in Dates |-> NoFile]
    /\ csvRun = [d \in Dates |-> [fetched |-> {}, pages |-> 0]]
    /\ hpc = "idle"
    /\ hcaller = "cli"
    /\ hdate = 1
    /\ hpage = 1
    /\ hattempt = 0
    /\ htotal = 0
    /\ hrecords = <<>>
    /\ hexit = 0
    /\ hhist = NoHistory
    /\ bpc = "idle"
    /\ bstart = 1
    /\ bend = 1
    /\ current = 1
    /\ total = 0
    /\ done = 0
    /\ skipped = 0
    /\ failed = 0
    /\ blog = <<>>
    /\ bprev = [ran |-> FALSE, start |-> 1, end |-> 1, ok |-> {}]
    /\ store = <<>>
    /\ pdf = <<>>
    /\ triaged = [d \in Dates |-> -1]
    /\ ever = [recs |-> {}, sums |-> {}]
    /\ tpc = "idle"
    /\ tmode = "date"
    /\ alerts = <<>>
    /\ processed = {}
    /\ tqueue = <<>>
    /\ tdate = 1
    /\ detected = <<>>
    /\ ti = 0
    /\ counter = NoCount
    /\ tattempt = 0
    /\ texit = 0
    /\ thist = NoTriageHistory
    /\ dl = NoDownload
    /\ overlapped = FALSE
    /\ epc = "idle"
    /\ ealerts = <<>>
    /\ etargets = <<>>
    /\ eexit = 0
    /\ ehist = NoEnrichHistory

\* The callers serialise the invocations.
Init == Boot /\ today = 1 /\ serial = TRUE

\* The callers start the programs whenever they like.
InitOverlap == Boot /\ today = 1 /\ serial = FALSE

\* The Harvester and the Batch Driver.
Next ==
    \/ \E d \in Dates : HarvestStart(d)
    \/ \E resp \in PortalResponses(hdate, hpage) : FetchOk(resp)
    \/ FetchFail
    \/ HarvestExit
    \/ \E s \in Dates, e \in Dates : BatchStart(s, e)
    \/ BatchSkip
    \/ BatchInvoke
    \/ BatchCollect
    \/ BatchReport
    \/ BatchExit
    \/ Tick

Spec == Init /\ [][Next]_vars

\* The Triage Engine's invocations, with whole runs of the Harvester.
TriageSteps ==
    \/ \E d \in Dates : \E rows \in HarvestOutcomes(d) : HarvestRun(d, rows)
    \/ \E d \in Dates : TriageDate(d)
    \/ TriageEnter
    \/ TriageAll
    \/ AllNext
    \/ tpc = "classify" /\
            \E resp \in ClassifierResponses(Len(read_csv(tdate))) : Classify(resp)
    \/ ClassifyFail
    \/ DownloadBegin
    \/ GetOk
    \/ GetFail
    \/ TriageKill
    \/ TriageExit

\* The Triage Engine, day after day.
NextTriage == TriageSteps \/ Tick

SpecTriage == Init /\ [][NextTriage]_vars

\* The two retry loops on one day: the Harvester step by step, and the Triage
\* Engine's downloads for the listings it wrote.
NextRetry ==
    \/ \E d \in Dates : HarvestStart(d)
    \/ \E resp \in PortalResponses(hdate, hpage) : FetchOk(resp)
    \/ FetchFail
    \/ HarvestExit
    \/ \E d \in Dates : TriageDate(d)
    \/ TriageEnter
    \/ tpc = "classify" /\
            \E resp \in ClassifierResponses(Len(read_csv(tdate))) : Classify(resp)
    \/ DownloadBegin
    \/ GetOk
    \/ GetFail
    \/ TriageExit

SpecRetry == Init /\ [][NextRetry]_vars

\* The Enricher's invocations.
EnrichSteps ==
    \/ \E limit \in Limits : EnrichStart(limit)
    \/ EnrichSkipMissing
    \/ \E doc \in Extractions : EnrichExtract(doc)
    \/ \E summary \in Summaries : EnrichSummaryOk(summary)
    \/ EnrichSummaryFail
    \/ EnrichSave
    \/ EnrichKill
    \/ EnrichExit
    \/ \E name \in DOMAIN pdf : DocumentLost(name)

\* The Triage Engine and the Enricher on one day's listings.
NextEnrich == TriageSteps \/ EnrichSteps

\* One invocation at a time.
SpecEnrich == Init /\ [][NextEnrich]_vars

\* Invocations that may overlap.
SpecOverlap == InitOverlap /\ [][NextEnrich]_vars

\* The --limit of the repeated invocations: the same positive number each time.
FixedLimit == MaxLimit

\* A running Enricher goes on: nobody kills it.
EnrichProgress ==
    \/ EnrichSkipMissing
    \/ \E doc \in Extractions : EnrichExtract(doc)
    \/ \E summary \in Summaries : EnrichSummaryOk(summary)
    \/ EnrichSummaryFail
    \/ EnrichSave
    \/ EnrichExit

\* A running Triage Engine goes on, or is killed.
TriageProgress == tpc # "idle" /\ TriageSteps

\* The Triage Engine, and the Enricher invoked with --limit FixedLimit.
NextRepeat ==
    \/ TriageSteps
    \/ EnrichStart(FixedLimit)
    \/ EnrichProgress
    \/ \E name \in DOMAIN pdf : DocumentLost(name)

\* The Enricher is invoked again and again; the processes are single-threaded
\* loops that go on until they end; a document that has text is read, and a
\* summarization that is tried again and again succeeds.
RepeatFairness ==
    /\ SF_vars(EnrichStart(FixedLimit))
    /\ WF_vars(EnrichProgress)
    /\ WF_vars(TriageProgress)
    /\ SF_vars(EnrichExtract("text"))
    /\ SF_vars(\E summary \in Summaries : EnrichSummaryOk(summary))

SpecRepeat == Init /\ [][NextRepeat]_vars /\ RepeatFairness

\* The same, when no document leaves the disk.
NextRepeatKept ==
    \/ TriageSteps
    \/ EnrichStart(FixedLimit)
    \/ EnrichProgress

SpecRepeatKept == Init /\ [][NextRepeatKept]_vars /\ RepeatFairness

(***************************************************************************)
(* The two models of the Harvester agree: what a whole run writes is what  *)
(* the step-by-step run writes, and only for a day that has come.          *)
(***************************************************************************)
HarvestRunAgrees ==
    /\ \A d \in Dates : csv[d].present => csv[d].rows \in HarvestOutcomes(d)
    /\ (hpc = "done" /\ hexit = 0 /\ ~hhist.nodata) => hdate <= today

(***************************************************************************)
(* Properties of the Harvester and the Batch Driver, checked under Spec.   *)
(***************************************************************************)
\* C1: when page 1 says that nothing was disclosed on the date, the Harvester
\* has written an empty Daily Listing File (header only) for the date by the
\* time it returns.
C1_EmptyDayWritesMarker ==
    (hpc = "done" /\ hhist.nodata) =>
        (csv[hdate].present /\ csv[hdate].rows = <<>>)

\* C2, as stated: a run of the Harvester on a date whose Daily Listing File
\* exists (the second run on the date) makes no network request.
C2_SecondRunMakesNoRequest ==
    (hpc \in {"fetch", "done"} /\ hhist.pre.present) => hhist.reqs = 0

\* C2, amended: the Batch Driver skips every date whose Daily Listing File
\* exists: on such a visit the Harvester is not invoked and no request is made,
\* and a Harvester the driver did invoke found no file for its date.
C2_DriverSkipsExistingFile ==
    /\ \A i \in 1..Len(blog) :
          blog[i].existed => (~blog[i].invoked /\ blog[i].reqs = 0)
    /\ (hpc # "idle" /\ hcaller = "batch") => ~hhist.pre.present

\* A visit of the driver to a date whose file exists, in a run that also
\* invoked the Harvester on another date.
C2_Witness ==
    \E i, j \in 1..Len(blog) : blog[i].existed /\ blog[j].invoked

\* C3: a page fetch that exhausts its retries ends the process with a non-zero
\* status and leaves the date's file as it was before the run; and a Daily
\* Listing File exists only if the run that wrote it fetched page 1 and every
\* page up to its total.
C3_NoPartialFile ==
    /\ (hpc = "done" /\ hhist.exhausted) =>
           (hexit # 0 /\ csv[hdate] = hhist.pre)
    /\ \A d \in Dates :
           csv[d].present =>
               (1 \in csvRun[d].fetched /\ 1..csvRun[d].pages \subseteq csvRun[d].fetched)

\* A run that fetched page 1 of a two-page listing and exhausted its retries
\* on page 2.
C3_Witness ==
    /\ hpc = "done"
    /\ hhist.exhausted
    /\ hpage = 2
    /\ hrecords # <<>>

\* C4: in a run of the driver over the range of the previous run, the
\* Harvester is not invoked for a date that the previous run completed with
\* exit status zero.
C4_RerunSkipsCompleted ==
    (bpc = "wait" /\ bprev.ran /\ bprev.start = bstart /\ bprev.end = bend) =>
        hdate \notin bprev.ok

\* C5: the driver visits the dates from START_DATE on, one by one in
\* increasing order and each once; every visit is counted in exactly one of
\* done, skipped and failed, a non-zero exit in failed; and when the loop is
\* over every date up to END_DATE was visited and the three counts add up to
\* total.
C5_VisitsEveryDateOnce ==
    bpc # "idle" =>
        /\ Len(blog) = current - bstart
        /\ \A i \in 1..Len(blog) : blog[i].date = bstart + i - 1
        /\ done + skipped + failed = Len(blog)
        /\ failed = Cardinality({i \in 1..Len(blog) : blog[i].invoked /\ blog[i].rc # 0})
        /\ skipped = Cardinality({i \in 1..Len(blog) : ~blog[i].invoked})
        /\ total = bend - bstart + 1
        /\ bpc = "report" =>
              (current = bend + 1 /\ done + skipped + failed = total)

\* A finished run over two dates whose first date failed and whose second
\* date was harvested.
C5_Witness ==
    /\ bpc = "report"
    /\ total = 2
    /\ blog[1].rc # 0
    /\ blog[2].invoked
    /\ blog[2].rc = 0

(***************************************************************************)
(* Properties of the Triage Engine, checked under SpecTriage.              *)
(***************************************************************************)
\* The dates derivable from a store: those of its records' timestamps.
StoreDates(s) == {s[i].dt.ymd : i \in 1..Len(s)}

IsTombstone(r) == r.reason = Sentinel

\* The number of records of store s for date d that are (tomb) or are not
\* tombstones.
CountFor(s, d, tomb) ==
    Cardinality({i \in 1..Len(s) : s[i].dt.ymd = d /\ IsTombstone(s[i]) = tomb})

\* C6: the dates derivable from the store are exactly the dates on which
\* triage has completed; and triage invoked on a date already triaged calls
\* no classifier, downloads nothing and leaves the store as it was.
C6_StoreDatesAreTriagedDates ==
    /\ StoreDates(store) = {d \in Dates : triaged[d] # -1}
    /\ tpc \in {"classify", "download", "get"} => triaged[tdate] = -1
    /\ (tpc = "done" /\ tmode = "date" /\ thist.was) =>
           (store = thist.pre /\ ~dl.called)

\* A --date run on a date that a tombstone marks as triaged has returned.
C6_Witness ==
    /\ tpc = "done"
    /\ tmode = "date"
    /\ thist.was
    /\ CountFor(store, tdate, TRUE) = 1

\* C7: for every triaged date with match count M the store holds M Alert
\* Records and no tombstone when M > 0, and one tombstone and no Alert Record
\* when M = 0.
C7_AlertsOrOneTombstone ==
    \A d \in Dates :
        triaged[d] # -1 =>
            IF triaged[d] > 0
            THEN CountFor(store, d, FALSE) = triaged[d] /\ CountFor(store, d, TRUE) = 0
            ELSE CountFor(store, d, FALSE) = 0 /\ CountFor(store, d, TRUE) = 1

\* One date triaged with two matches, another with none, and a later
\* invocation has returned.
C7_Witness ==
    /\ \E d, e \in Dates : triaged[d] = 2 /\ triaged[e] = 0
    /\ tpc = "done"
    /\ thist.was

\* C8: triage of a date without a Daily Listing File leaves the store as it
\* was, so that the date is not derivable from it as triaged.
C8_MissingFileLeavesStore ==
    (tpc = "done" /\ thist.nofile) =>
        (store = thist.pre /\ tdate \notin StoreDates(store))

\* C9: every record of the store, tombstones included, has a detection date
\* that is not before the date of its disclosure-date field.
C9_FoundNotBeforeDisclosure ==
    \A i \in 1..Len(store) : store[i].found >= store[i].dt.ymd

\* C10: a download_pdf call whose destination exists makes no request, leaves
\* the file as it was and returns True.
C10_DownloadIdempotent ==
    (dl.called /\ dl.existed) =>
        /\ tpc # "get"
        /\ dl.reqs = 0
        /\ dl.result
        /\ dl.after = dl.before
        /\ pdf[dl.name] = dl.before

\* download_pdf was called for a path that a killed run had left on disk.
C10_Witness ==
    /\ dl.called
    /\ dl.existed
    /\ dl.name \notin {store[i].pdf_path : i \in 1..Len(store)}

\* The records the run has just appended: the tail of the store, as long as detected.
StoreTail(n) == SubSeq(store, Len(store) - n + 1, Len(store))

\* C11: a download_pdf that returned False after its last attempt does not end
\* the run: the alert keeps an empty pdf_path, the loop goes on with the alerts
\* after it, and all the date's records, the one without a document among them,
\* are appended and saved.
C11_FailedDownloadKeepsRecord ==
    \A i \in thist.dlfail :
        /\ i \in 1..Len(detected)
        /\ detected[i].pdf_path = <<>>
        /\ texit = 0
        /\ tpc \in {"download", "get", "next", "done"}
        /\ tpc \in {"download", "get"} => ti > i
        /\ tpc \in {"next", "done"} =>
              /\ Len(detected) = thist.m
              /\ Len(store) >= Len(detected)
              /\ StoreTail(Len(detected)) = detected
              /\ alerts = store

\* A saved date of two alerts: the first one's download failed three times,
\* the second one's document was downloaded.
C11_Witness ==
    /\ tpc = "done"
    /\ thist.dlfail = {1}
    /\ Len(detected) = 2
    /\ detected[1].url # <<>>
    /\ detected[2].pdf_path # <<>>
    /\ StoreTail(2) = detected

\* C12: the classifier's answer is parsed fail-open.  The array of a fenced
\* block is taken first, then the array of the bracketed span of the text; an
\* answer with neither is zero matches, not an error: no record is detected,
\* the date gets exactly one tombstone and no Alert Record, and the run goes on
\* with status zero.
C12_ParseFailsOpen ==
    /\ thist.parse = "array" =>
          (tpc \in {"download", "get", "next", "done"} /\ Len(detected) = thist.m)
    /\ thist.parse = "none" =>
          /\ tpc \in {"next", "done"}
          /\ texit = 0
          /\ detected = <<>>
          /\ alerts = store
          /\ IsTombstone(store[Len(store)])
          /\ store[Len(store)].dt.ymd = tdate
          /\ CountFor(store, tdate, TRUE) = 1
          /\ CountFor(store, tdate, FALSE) = 0

\* An --all run met an answer without an array on one date and has gone on to
\* the next file.
C12_Witness ==
    /\ tmode = "all"
    /\ tpc = "next"
    /\ thist.parse = "none"
    /\ tqueue # <<>>
    /\ CountFor(store, tdate, TRUE) = 1

(***************************************************************************)
(* Properties of the Enricher, checked under SpecEnrich.                   *)
(***************************************************************************)
\* How often x occurs in the sequence s.
Occurs(s, x) == Cardinality({j \in 1..Len(s) : s[j] = x})

\* The Enricher is at the record idx, whose summary it has not saved yet.
Pending(idx) == epc = "save" /\ Head(etargets) = idx

\* A record whose text was blank has the fixed summary, and once the loop has
\* left it the store was saved once for it and holds that summary.
BlankIsMarkedAndSavedOnce ==
    \A idx \in ehist.blank :
        /\ ealerts[idx].summary = Unreadable
        /\ Occurs(ehist.saves, idx) = IF Pending(idx) THEN 0 ELSE 1
        /\ ~Pending(idx) => store[idx].summary = Unreadable

\* A record of the store with the fixed summary keeps it, and an Enricher that
\* starts does not select it.
MarkedIsNeverSelected ==
    \A i \in 1..Len(store) :
        store[i].summary = Unreadable =>
            /\ i <= Len(store') /\ store'[i].summary = Unreadable
            /\ (epc = "idle" /\ epc' # "idle") =>
                  \A k \in 1..Len(etargets') : etargets'[k] # i

\* C13: a record whose extracted text is empty or blank gets the fixed
\* extraction-failed summary, the store is saved exactly once for it, and no
\* later run of the Enricher selects the record.
C13_BlankTextMarkedForGood ==
    [] BlankIsMarkedAndSavedOnce /\ [][MarkedIsNeverSelected]_vars

\* A later run of the Enricher works on another record while the store holds a
\* record with the fixed summary.
C13_Witness ==
    /\ epc = "call"
    /\ ehist.blank = {}
    /\ \E i \in 1..Len(store) :
          store[i].summary = Unreadable /\ i # Head(etargets)

\* The loop has left the record idx behind without a summary.
SkippedUnhandled(idx) ==
    /\ ealerts[idx].summary = ""
    /\ idx <= Len(store) /\ store[idx].summary = ""
    /\ \A k \in 1..Len(etargets) : etargets[k] # idx

\* C14: a failure of text extraction or of the summarization call on one
\* record makes the Enricher go on with the next selected record: the run is
\* not aborted and the record's summary stays empty, so that the next
\* invocation selects it again.
C14_FailureSkipsRecord ==
    \A idx \in ehist.failed \cup ehist.raised : SkippedUnhandled(idx) /\ eexit = 0

\* The half of C14 that the code keeps: a summarization call that raised
\* APIError.
C14_ApiErrorSkipsRecord ==
    \A idx \in ehist.failed : SkippedUnhandled(idx)

(***************************************************************************)
(* More properties of the Triage Engine, checked under SpecTriage.         *)
(***************************************************************************)
\* C15: in a run over all untriaged dates a classification call that fails on
\* one date does not end the run: the process ends only after the last
\* listing file, with status zero.
C15_ClassifierFailureSkipsDate ==
    (tmode = "all" /\ tpc = "done") => (texit = 0 /\ tqueue = <<>>)

(***************************************************************************)
(* More properties of the Enricher, checked under SpecEnrich.              *)
(***************************************************************************)
\* C16: the Enricher saves the whole store right after each record whose
\* summary it writes, once per record.  So at every point of a run, where a
\* kill may fall, the file holds every summary the run has written except the
\* one of the record it is at, and differs from the run's list in nothing else.
C16_SavedAfterEachRecord ==
    epc # "idle" =>
        /\ Len(store) = Len(ealerts)
        /\ \A i \in 1..Len(ealerts) :
              IF Pending(i)
              THEN store[i] = Key(ealerts[i]) /\ Occurs(ehist.saves, i) = 0
              ELSE /\ store[i] = ealerts[i]
                   /\ Occurs(ehist.saves, i) =
                          IF \E k \in 1..Len(ehist.sel) : ehist.sel[k] = i
                             /\ ealerts[i].summary # ""
                          THEN 1 ELSE 0

\* The run has saved its first record's summary and has written, not yet
\* saved, its second record's.
C16_Witness ==
    /\ epc = "save"
    /\ Len(ehist.saves) = 1
    /\ store[ehist.saves[1]].summary \in Summaries
    /\ ealerts[Head(etargets)].summary \in Summaries

\* The store gets new records at its end.
StoreAppended ==
    /\ Len(store') > Len(store)
    /\ SubSeq(store', 1, Len(store)) = store

\* One record of the store gets its summary, empty until now.
StoreSummaryFilled ==
    /\ Len(store') = Len(store)
    /\ \E i \in 1..Len(store) :
        /\ store[i].summary = ""
        /\ store'[i].summary # ""
        /\ store' = [store EXCEPT ![i].summary = store'[i].summary]

\* C17: with serialised invocations of the Triage Engine and the Enricher the
\* store changes only by new records at its end or by one record's summary
\* going from empty to its value: no record is removed or moved, no other field
\* of a record changes, and a summary once written is not written again.
C17_StoreAppendsOrFillsSummary ==
    [][store' = store \/ StoreAppended \/ StoreSummaryFilled]_vars

\* A triage has appended to a store in which the Enricher had filled a summary.
C17_Witness ==
    /\ tpc = "done"
    /\ Len(store) > Len(thist.pre)
    /\ \E i \in 1..Len(thist.pre) : thist.pre[i].summary # ""

(***************************************************************************)
(* Overlapping invocations, checked under SpecOverlap.                     *)
(***************************************************************************)
\* A record that the Triage Engine once saved is not in the store.
LostRecord ==
    \E k \in ever.recs : \A i \in 1..Len(store) : Key(store[i]) # k

\* A summary that the Enricher once saved is not in the store, though its
\* record is.
LostSummary ==
    \E r \in ever.sums :
        /\ \A i \in 1..Len(store) : store[i] # r
        /\ \E i \in 1..Len(store) : store[i] = Key(r)

\* C18: every save writes the whole store from the list the invocation loaded
\* when it started.  A record or a summary is lost from the store only when
\* two invocations have overlapped; and overlapping invocations do lose them.
C18_LossOnlyWhenOverlapped ==
    (LostRecord \/ LostSummary) => overlapped

\* Every invocation has ended and the store lacks a summary that the Enricher
\* had saved: the Triage Engine, started before that save, saved its own list
\* after it.
C18_Witness ==
    /\ Idle
    /\ LostSummary
    /\ \E i \in 1..Len(store) : IsTombstone(store[i])

\* Every invocation has ended and the store lacks a record that the Triage
\* Engine had saved: the Enricher, started before that save, saved its own list
\* after it.
C18_RecordLostToo ==
    /\ Idle
    /\ LostRecord
    /\ \E i \in 1..Len(store) : store[i].summary # ""

(***************************************************************************)
(* The retry loops, checked under SpecRetry.                               *)
(***************************************************************************)
\* The events of a log as <<kind, seconds>>.
Shape(s) == [i \in 1..Len(s) |-> <<s[i].ev, s[i].n>>]

\* The requests and back-off sleeps of a log for one page.
Attempts(log, p) ==
    Shape(SelectSeq(log, LAMBDA e : e.page = p /\ e.ev # "throttle"))

\* A loop that waits for its next answer: no failure yet, or one failure and a
\* sleep of 1, or two failures with sleeps of 1 and 2.
RetryWaiting ==
    {<<>>,
     <<(<<"fail", 0>>), (<<"backoff", 1>>)>>,
     <<(<<"fail", 0>>), (<<"backoff", 1>>), (<<"fail", 0>>), (<<"backoff", 2>>)>>}

\* A loop that ended at its first success.
RetrySucceeded == {Append(s, <<"ok", 0>>) : s \in RetryWaiting}

\* A loop that ended at its third failure, without a sleep after it.
RetryExhausted ==
    <<(<<"fail", 0>>), (<<"backoff", 1>>), (<<"fail", 0>>), (<<"backoff", 2>>),
      (<<"fail", 0>>)>>

\* C19: every page fetch and every document download makes at most three
\* attempts and stops at its first success; it sleeps 1 after the first failure
\* and 2 after the second; after the third failure it does not sleep: the
\* Harvester exits with a non-zero status, download_pdf returns False.
C19_ThreeAttemptsWithBackoff ==
    /\ hpc \in {"fetch", "done"} =>
          /\ \A p \in 1..(hpage - 1) : Attempts(hhist.log, p) \in RetrySucceeded
          /\ hpc = "fetch" => Attempts(hhist.log, hpage) \in RetryWaiting
          /\ (hpc = "done" /\ hhist.exhausted) =>
                (Attempts(hhist.log, hpage) = RetryExhausted /\ hexit # 0)
          /\ (hpc = "done" /\ ~hhist.exhausted) =>
                (Attempts(hhist.log, hpage) \in RetrySucceeded /\ hexit = 0)
    /\ tpc = "get" => Shape(dl.log) \in RetryWaiting
    /\ (dl.called /\ tpc # "get") =>
          IF dl.existed THEN dl.log = <<>>
          ELSE IF dl.result THEN Shape(dl.log) \in RetrySucceeded
          ELSE Shape(dl.log) = RetryExhausted /\ texit = 0

\* A fetch of a page has failed three times, on a day for which a download had
\* failed three times: the store holds an alert with a URL and no document.
C19_Witness ==
    /\ hpc = "done"
    /\ hhist.exhausted
    /\ \E i \in 1..Len(store) : store[i].url # <<>> /\ store[i].pdf_path = <<>>

(***************************************************************************)
(* More properties of the Harvester, checked under Spec.                   *)
(***************************************************************************)
\* The least number of pages of ITEMS_PER_PAGE items that hold c items.
PagesFor(c) ==
    CHOOSE n \in 0..c : n * ITEMS_PER_PAGE >= c /\ (n - 1) * ITEMS_PER_PAGE < c

\* 1, 2, ..., n
UpTo(n) == [i \in 1..n |-> i]

\* The pages of the successful requests of a log, in order.
PagesFetched(log) ==
    LET s == SelectSeq(log, LAMBDA e : e.ev = "ok")
    IN [i \in 1..Len(s) |-> s[i].page]

\* In the log the first request of page p comes right after a throttle sleep,
\* which comes right after the successful request of page p - 1.
ThrottledBefore(log, p) ==
    \E i \in 2..(Len(log) - 1) :
        /\ log[i] = Event("throttle", p, REQUEST_INTERVAL)
        /\ log[i - 1] = Event("ok", p - 1, 0)
        /\ log[i + 1].page = p /\ log[i + 1].ev \in {"ok", "fail"}
        /\ \A j \in 1..(i - 1) : log[j].page # p

\* C20: when page 1 shows a count C > 0, a run that ends well has fetched
\* exactly the pages 1..N, N the least number of 100-item pages holding C
\* items, in that order and each once, has slept the request interval before
\* the first request of each of the pages 2..N and nowhere else, and has written
\* page 1's rows, then page 2's, up to page N's (a row's title names its page).
C20_FetchesEveryPageInOrder ==
    (hpc = "done" /\ hexit = 0 /\ hhist.count > 0) =>
        LET N == PagesFor(hhist.count)
        IN /\ PagesFetched(hhist.log) = UpTo(N)
           /\ \A p \in 2..N : ThrottledBefore(hhist.log, p)
           /\ Len(SelectSeq(hhist.log, LAMBDA e : e.ev = "throttle")) = N - 1
           /\ csv[hdate].present
           /\ [i \in 1..Len(csv[hdate].rows) |-> csv[hdate].rows[i].title] = UpTo(N)

\* A finished run on a listing of 200 items (two full pages) whose second page
\* was fetched at the second attempt.
C20_Witness ==
    /\ hpc = "done"
    /\ hexit = 0
    /\ hhist.count = 2 * ITEMS_PER_PAGE
    /\ Attempts(hhist.log, 2) = <<(<<"fail", 0>>), (<<"backoff", 1>>), (<<"ok", 0>>)>>

(***************************************************************************)
(* The documents of the persisted records, checked under SpecTriage.       *)
(***************************************************************************)
\* The record's document path names a file on disk.
HasDocument(r) == r.pdf_path # <<>> /\ r.pdf_path \in DOMAIN pdf

\* C21: across any sequence of triage runs, runs killed between a download and
\* the save included, every record persisted with a document path names a file
\* whose content was downloaded from that record's own document URL.
C21_DocumentIsRecordsOwn ==
    \A i \in 1..Len(store) :
        store[i].pdf_path # <<>> =>
            /\ store[i].pdf_path \in DOMAIN pdf
            /\ pdf[store[i].pdf_path] = store[i].url

\* What does hold: the path is on disk, it is the name made of the record's
\* date and issuer code, and the file's content is a disclosure of that date.
C21_DocumentOfSameDateAndIssuer ==
    \A i \in 1..Len(store) :
        store[i].pdf_path # <<>> =>
            /\ HasDocument(store[i])
            /\ store[i].pdf_path[1] = store[i].dt.ymd
            /\ store[i].pdf_path[2] = store[i].code
            /\ pdf[store[i].pdf_path][1] = store[i].dt.ymd

\* A record is persisted with the document of another disclosure, which
\* download_pdf found on disk and did not fetch.
C21_ForeignDocument ==
    \E i \in 1..Len(store) :
        /\ HasDocument(store[i])
        /\ pdf[store[i].pdf_path] # store[i].url
        /\ dl.called /\ dl.existed /\ dl.reqs = 0

(***************************************************************************)
(* The Enricher invoked again and again, checked under SpecRepeat.         *)
(***************************************************************************)
\* No more records than this are ever in the store.
MaxStore == MaxMatches * MaxDate

\* The record at i can be selected, its document is on disk, and it has no
\* summary.
Waiting(i) ==
    /\ i <= Len(store)
    /\ store[i].summary = ""
    /\ store[i].code # ""
    /\ HasDocument(store[i])

\* C22: with the Enricher invoked again and again with one positive limit,
\* every selectable record whose document is on disk and whose summarization
\* succeeds is summarized in the end: none waits forever behind records that
\* are skipped and left unmarked.
C22_SummarizableIsSummarized == \A i \in 1..MaxStore : []<>(~Waiting(i))

\* The situation of the claim: the Enricher has skipped a record whose
\* document is missing, while a record after it waits with its document.
C22_BlockedBehindSkipped ==
    /\ epc = "done"
    /\ eexit = 0
    /\ \E i \in ehist.missing : \E j \in 1..MaxStore : i < j /\ Waiting(j)

====
